---- MODULE Spec2Model ----
(***************************************************************************)
(* USB PD Inverter (ATtiny212/412): the sine table, main's timer set-up,   *)
(* the TCD overflow interrupt service routine and the timer hardware that  *)
(* triggers it.  One step of the model is one statement of the firmware    *)
(* or one event of the hardware (end of a TCD cycle, a move of the FRQ     *)
(* switch).                                                                *)
(***************************************************************************)
EXTENDS Integers, Sequences, FiniteSets, TLC

\* ------------------------------------------------------------------ bounds
\* Length of the observation window (handler invocations counted exactly)
\* while every invocation so far has read the same frequency mode.
MaxCycles == 2320
\* Length of the observation window once invocations have read both modes.
MaxMixed == 30

\* --------------------------------------------------------------- constants
\* Initial values of the generator state: SIN_ptr, SIN_val, cnt60.
SIN_PTR_INIT == 0
SIN_VAL_INIT == 128
CNT60_INIT == 5
\* Mutant: the counter reset to 6 after a skip.
CNT60_RELOAD_Six == CNT60_INIT + 1

\* Value the 60Hz correction counter is reset to after a skip.
CNT60_RELOAD == 5
\* Dead time written to CMPASET and CMPBSET.
DEAD_TIME == 3
\* On-times main writes to CMPACLR and CMPBCLR.
MAIN_CMPACLR == 128
MAIN_CMPBCLR == 127

\* TCD clock frequency in Hz, TCD cycle length in timer clocks and output
\* frequency in Hz, as the comments above the table give them.
TCD_CLOCK == 5000000
DOC_CYCLE_LENGTH == 259
F_LOW == 50

\* Sine wave table (386 values for 50Hz), as a 1-based tuple: C's SIN[i] is
\* SIN_TABLE[i + 1].
SIN_TABLE == <<
    128,130,132,134,136,138,140,142,144,146,148,150,152,154,156,158,
    160,162,164,166,168,170,172,174,176,178,180,182,184,185,187,189,
    191,193,195,196,198,200,201,203,205,206,208,210,211,213,214,216,
    217,219,220,222,223,224,226,227,228,230,231,232,233,234,235,237,
    238,239,240,241,242,242,243,244,245,246,247,247,248,249,249,250,
    250,251,251,252,252,253,253,253,254,254,254,254,255,255,255,255,
    255,255,255,255,255,255,254,254,254,254,253,253,253,252,252,251,
    251,250,250,249,249,248,247,247,246,245,244,243,242,242,241,240,
    239,238,237,235,234,233,232,231,230,228,227,226,224,223,222,220,
    219,217,216,214,213,211,210,208,206,205,203,201,200,198,196,195,
    193,191,189,187,185,184,182,180,178,176,174,172,170,168,166,164,
    162,160,158,156,154,152,150,148,146,144,142,140,138,136,134,132,
    130,128,125,123,121,119,117,115,113,111,109,107,105,103,101, 99,
     97, 95, 93, 91, 89, 87, 85, 83, 81, 79, 77, 75, 73, 71, 70, 68,
     66, 64, 62, 60, 59, 57, 55, 54, 52, 50, 49, 47, 45, 44, 42, 41,
     39, 38, 36, 35, 33, 32, 31, 29, 28, 27, 25, 24, 23, 22, 21, 20,
     18, 17, 16, 15, 14, 13, 13, 12, 11, 10,  9,  8,  8,  7,  6,  6,
      5,  5,  4,  4,  3,  3,  2,  2,  2,  1,  1,  1,  1,  0,  0,  0,
      0,  0,  0,  0,  0,  0,  0,  1,  1,  1,  1,  2,  2,  2,  3,  3,
      4,  4,  5,  5,  6,  6,  7,  8,  8,  9, 10, 11, 12, 13, 13, 14,
     15, 16, 17, 18, 20, 21, 22, 23, 24, 25, 27, 28, 29, 31, 32, 33,
     35, 36, 38, 39, 41, 42, 44, 45, 47, 49, 50, 52, 54, 55, 57, 59,
     60, 62, 64, 66, 68, 70, 71, 73, 75, 77, 79, 81, 83, 85, 87, 89,
     91, 93, 95, 97, 99,101,103,105,107,109,111,113,115,117,119,121,
    123,125
>>

\* Mutant: the table length taken one short.
SIZEOF_SIN_OneShort == Len(SIN_TABLE) - 1

\* sizeof(SIN)
SIZEOF_SIN == Len(SIN_TABLE)

\* Mutant: the table indexed one entry off (a 0-based / 1-based slip).
SIN_ShiftedIndex(i) == SIN_TABLE[((i + 1) % SIZEOF_SIN) + 1]

\* SIN[i] of the C source, for 0 <= i < sizeof(SIN).
SIN(i) == SIN_TABLE[i + 1]

\* Truncation to uint8_t / uint16_t.
U8(x) == x % 256
U16(x) == x % 65536

\* -SIN_val stored into an 8-bit register: two's-complement negation.
Neg8(v) == U8(256 - v)

\* A write to the low byte of a 12-bit compare register (CMPxCLRL).
WriteLow(reg, v) == (reg \div 256) * 256 + U8(v)

\* Mutant: the index wrapped to 1 instead of 0.
IncWrap_WrapToOne(p) == IF U16(p + 1) >= SIZEOF_SIN THEN 1 ELSE U16(p + 1)

\* Mutant: the wrap test made against sizeof(SIN) - 1, so that the index
\* wraps one step early and entry 385 is never reached.
IncWrap_WrapsEarly(p) == IF U16(p + 1) >= SIZEOF_SIN - 1 THEN 0 ELSE U16(p + 1)

\* ++SIN_ptr on a uint16_t, then the wrap test against sizeof(SIN).
IncWrap(p) == IF U16(p + 1) >= SIZEOF_SIN THEN 0 ELSE U16(p + 1)

\* The values a read of SIN[p] can give: the table entry, or any byte when p
\* is outside the array (undefined behaviour in C).
SinRead(p) == IF p < SIZEOF_SIN THEN {SIN(p)} ELSE 0..255

\* TCD cycle length in timer clocks, from the four compare values.
CycleLength(r) == r.CMPASET + r.CMPACLR + r.CMPBSET + r.CMPBCLR + 4

\* ------------------------------------------------------------------- state
VARIABLES
  pc,        \* main's position: the line of its next statement
  isr,       \* stack of handler invocations in progress, each the line of
             \* its next statement; the innermost first; <<>> when none
  SIN_ptr,   \* sine wave table pointer   (uint16_t)
  SIN_val,   \* sine wave value           (uint8_t)
  cnt60,     \* 60Hz correction counter   (uint8_t)
  CMPASET, CMPACLR, CMPBSET, CMPBCLR,   \* TCD0 compare registers as written
  CTRLE,     \* TCD0.CTRLE: SYNCEOC command pending
  INTFLAGS,  \* TCD0.INTFLAGS: OVF flag
  INTCTRL,   \* TCD0.INTCTRL: OVF interrupt enabled
  ENABLE,    \* TCD0.CTRLA: ENABLE bit
  ENRDY,     \* TCD0.STATUS: ENRDY bit
  SREG_I,    \* global interrupt enable
  PIN_FRQ,   \* level of the frequency selection pin: 1 open (50Hz), 0 closed (60Hz)
  active,    \* compare values the running TCD cycle uses (synchronised copy)
  shadow,    \* history: generator state after running the handler invocations
             \* so far one after another as atomic steps
  obs        \* history: counters of the observation window

vars == <<pc, isr, SIN_ptr, SIN_val, cnt60, CMPASET, CMPACLR, CMPBSET, CMPBCLR,
          CTRLE, INTFLAGS, INTCTRL, ENABLE, ENRDY, SREG_I, PIN_FRQ, active,
          shadow, obs>>

gen == <<SIN_ptr, SIN_val, cnt60>>
regs == <<CMPASET, CMPACLR, CMPBSET, CMPBCLR>>
tcd == <<CTRLE, INTFLAGS, INTCTRL, ENABLE, ENRDY, active>>
hist == <<shadow, obs>>

\* The compare registers as a record.
Written == [CMPASET |-> CMPASET, CMPACLR |-> CMPACLR,
            CMPBSET |-> CMPBSET, CMPBCLR |-> CMPBCLR]

\* The generator state as a record.
GenState == [ptr |-> SIN_ptr, val |-> SIN_val, cnt |-> cnt60]

\* ------------------------------------------------------ observation window
\* n: handler invocations begun; k: invocations that read skip (60Hz) mode;
\* extra: extra (skip) index advances performed.  The counters are exact
\* while on = TRUE and are dropped once the window is over.
ObsStart == [on |-> TRUE, n |-> 0, k |-> 0, extra |-> 0]
ObsOff == [on |-> FALSE, n |-> 0, k |-> 0, extra |-> 0]
\* Whether the window is still open after the read of invocation o.n.
ObsOpen(o) == o.k = 0 \/ o.k = o.n \/ o.n <= MaxMixed
ObsInvocation(o) ==
  IF o.on /\ o.n < MaxCycles THEN [o EXCEPT !.n = @ + 1] ELSE ObsOff
ObsRead(o, level) ==
  LET o1 == IF level = 0 THEN [o EXCEPT !.k = @ + 1] ELSE o
  IN  IF o.on /\ ObsOpen(o1) THEN o1 ELSE ObsOff
ObsSkip(o) == IF o.on THEN [o EXCEPT !.extra = @ + 1] ELSE o

\* ------------------------------------------------------------ initial state
\* The state at entry to main: the globals hold their initialisers, the
\* timer is in its reset state.
Reset ==
  /\ pc = "l123"
  /\ isr = <<>>
  /\ SIN_ptr = SIN_PTR_INIT
  /\ SIN_val = SIN_VAL_INIT
  /\ cnt60 = CNT60_INIT
  /\ CMPASET = 0 /\ CMPACLR = 0 /\ CMPBSET = 0 /\ CMPBCLR = 0
  /\ CTRLE = FALSE /\ INTFLAGS = FALSE /\ INTCTRL = FALSE
  /\ ENABLE = FALSE /\ ENRDY = FALSE /\ SREG_I = FALSE
  /\ active = [CMPASET |-> 0, CMPACLR |-> 0, CMPBSET |-> 0, CMPBCLR |-> 0]
  /\ shadow = [ptr |-> SIN_PTR_INIT, val |-> SIN_VAL_INIT, cnt |-> CNT60_INIT]
  /\ obs = ObsStart

\* The FRQ switch is in either position at power-up.
Init == Reset /\ PIN_FRQ \in {0, 1}

\* -------------------------------------------------------------------- main
\* Lines 123-126: clock, pin directions, pullup, four ramp mode.
Main_l123 ==
  /\ isr = <<>> /\ pc = "l123"
  /\ pc' = "l127"
  /\ UNCHANGED <<isr, gen, regs, tcd, SREG_I, PIN_FRQ, hist>>

Main_l127 ==
  /\ isr = <<>> /\ pc = "l127"
  /\ pc' = "l128"
  /\ CMPASET' = DEAD_TIME
  /\ UNCHANGED <<isr, gen, CMPACLR, CMPBSET, CMPBCLR, tcd, SREG_I, PIN_FRQ, hist>>

Main_l128 ==
  /\ isr = <<>> /\ pc = "l128"
  /\ pc' = "l129"
  /\ CMPACLR' = MAIN_CMPACLR
  /\ UNCHANGED <<isr, gen, CMPASET, CMPBSET, CMPBCLR, tcd, SREG_I, PIN_FRQ, hist>>

Main_l129 ==
  /\ isr = <<>> /\ pc = "l129"
  /\ pc' = "l130"
  /\ CMPBSET' = DEAD_TIME
  /\ UNCHANGED <<isr, gen, CMPASET, CMPACLR, CMPBCLR, tcd, SREG_I, PIN_FRQ, hist>>

Main_l130 ==
  /\ isr = <<>> /\ pc = "l130"
  /\ pc' = "l131"
  /\ CMPBCLR' = MAIN_CMPBCLR
  /\ UNCHANGED <<isr, gen, CMPASET, CMPACLR, CMPBSET, tcd, SREG_I, PIN_FRQ, hist>>

\* Lines 131-134: output channels, overflow interrupt enabled.
Main_l131 ==
  /\ isr = <<>> /\ pc = "l131"
  /\ pc' = "l135"
  /\ INTCTRL' = TRUE
  /\ UNCHANGED <<isr, gen, regs, CTRLE, INTFLAGS, ENABLE, ENRDY, active,
                 SREG_I, PIN_FRQ, hist>>

\* Line 135: wait for synchronization; spins while ENRDY is clear.
Main_l135 ==
  /\ isr = <<>> /\ pc = "l135"
  /\ pc' = IF ENRDY THEN "l136" ELSE "l135"
  /\ UNCHANGED <<isr, gen, regs, tcd, SREG_I, PIN_FRQ, hist>>

\* Lines 136-138: enable the timer; it starts its first cycle with the
\* compare values written so far.
Main_l136 ==
  /\ isr = <<>> /\ pc = "l136"
  /\ pc' = "l139"
  /\ ENABLE' = TRUE
  /\ active' = Written
  /\ UNCHANGED <<isr, gen, regs, CTRLE, INTFLAGS, INTCTRL, ENRDY,
                 SREG_I, PIN_FRQ, hist>>

\* Line 139: sei().
Main_l139 ==
  /\ isr = <<>> /\ pc = "l139"
  /\ pc' = "l140"
  /\ SREG_I' = TRUE
  /\ UNCHANGED <<isr, gen, regs, tcd, PIN_FRQ, hist>>

\* Line 140: while(1); -- an iteration of the idle loop touches nothing.
Main_l140 ==
  /\ isr = <<>> /\ pc = "l140"
  /\ pc' = "l140"
  /\ UNCHANGED <<isr, gen, regs, tcd, SREG_I, PIN_FRQ, hist>>

\* main, one statement at a time; it is suspended (isr = <<>> fails) while
\* a handler invocation is in progress.
Main ==
  \/ Main_l123 \/ Main_l127 \/ Main_l128 \/ Main_l129 \/ Main_l130
  \/ Main_l131 \/ Main_l135 \/ Main_l136 \/ Main_l139 \/ Main_l140

\* ------------------------------------------------------------ TCD hardware
\* The timer reports that it is ready to be enabled.
TCD_Ready ==
  /\ ~ENRDY
  /\ ENRDY' = TRUE
  /\ UNCHANGED <<pc, isr, gen, regs, CTRLE, INTFLAGS, INTCTRL, ENABLE, active,
                 SREG_I, PIN_FRQ, hist>>

\* A TCD cycle ends: the overflow flag is raised, and a pending SYNCEOC
\* command copies the written compare values into the running timer.
TCD_CycleEnd ==
  /\ ENABLE
  /\ INTFLAGS' = TRUE
  /\ active' = IF CTRLE THEN Written ELSE active
  /\ CTRLE' = FALSE
  /\ UNCHANGED <<pc, isr, gen, regs, INTCTRL, ENABLE, ENRDY, SREG_I, PIN_FRQ, hist>>

\* The frequency selection switch is moved during operation.
SwitchFRQ ==
  /\ PIN_FRQ' = 1 - PIN_FRQ
  /\ UNCHANGED <<pc, isr, gen, regs, tcd, SREG_I, hist>>

\* --------------------------------------------------------------------- ISR
\* Mutant: the handler declared ISR_NOBLOCK, so that it can be interrupted by
\* its own interrupt.
InterruptTaken_NoBlock == INTFLAGS /\ INTCTRL /\ SREG_I

\* The overflow interrupt is taken: flag raised, interrupt enabled, and no
\* handler invocation in progress (ISR() without ISR_NOBLOCK: the handler
\* runs with interrupts blocked).
InterruptTaken == INTFLAGS /\ INTCTRL /\ SREG_I /\ isr = <<>>

\* The innermost invocation is at line l.
At(l) == isr # <<>> /\ Head(isr) = l

\* The innermost invocation moves on to line l.
Goto(l) == isr' = <<l>> \o Tail(isr)

ISR_Enter ==
  /\ InterruptTaken
  /\ isr' = <<"l148">> \o isr
  /\ obs' = ObsInvocation(obs)
  /\ UNCHANGED <<pc, gen, regs, tcd, SREG_I, PIN_FRQ, shadow>>

\* Mutant: the primary register loaded from the table at the current index
\* plus one instead of from the cached sample.
ISR_l148_LookAhead ==
  /\ At("l148")
  /\ CMPACLR' = WriteLow(CMPACLR, SIN((SIN_ptr + 1) % SIZEOF_SIN))
  /\ Goto("l149")
  /\ UNCHANGED <<pc, gen, CMPASET, CMPBSET, CMPBCLR, tcd, SREG_I, PIN_FRQ, hist>>

\* Mutant: the synchronization requested together with the first write,
\* before the inverse value is written.
ISR_l148_SyncEarly ==
  /\ At("l148")
  /\ CMPACLR' = WriteLow(CMPACLR, SIN_val)
  /\ CTRLE' = TRUE
  /\ Goto("l149")
  /\ UNCHANGED <<pc, gen, CMPASET, CMPBSET, CMPBCLR, INTFLAGS, INTCTRL, ENABLE,
                 ENRDY, active, SREG_I, PIN_FRQ, hist>>

\* TCD0.CMPACLRL = SIN_val;
ISR_l148 ==
  /\ At("l148")
  /\ CMPACLR' = WriteLow(CMPACLR, SIN_val)
  /\ Goto("l149")
  /\ UNCHANGED <<pc, gen, CMPASET, CMPBSET, CMPBCLR, tcd, SREG_I, PIN_FRQ, hist>>

\* Mutant: the inverse value written to CMPBSET instead of CMPBCLRL.
ISR_l149_WrongRegister ==
  /\ At("l149")
  /\ CMPBSET' = Neg8(SIN_val)
  /\ Goto("l150")
  /\ UNCHANGED <<pc, gen, CMPASET, CMPACLR, CMPBCLR, tcd, SREG_I, PIN_FRQ, hist>>

\* TCD0.CMPBCLRL = -SIN_val;
ISR_l149 ==
  /\ At("l149")
  /\ CMPBCLR' = WriteLow(CMPBCLR, Neg8(SIN_val))
  /\ Goto("l150")
  /\ UNCHANGED <<pc, gen, CMPASET, CMPACLR, CMPBSET, tcd, SREG_I, PIN_FRQ, hist>>

\* TCD0.CTRLE = TCD_SYNCEOC_bm;
ISR_l150 ==
  /\ At("l150")
  /\ CTRLE' = TRUE
  /\ Goto("l151")
  /\ UNCHANGED <<pc, gen, regs, INTFLAGS, INTCTRL, ENABLE, ENRDY, active,
                 SREG_I, PIN_FRQ, hist>>

\* Mutant: the statement that clears the flag left out.
ISR_l151_NoAck ==
  /\ At("l151")
  /\ Goto("l152")
  /\ UNCHANGED <<pc, gen, regs, tcd, SREG_I, PIN_FRQ, hist>>

\* Mutant: the handler waits for the SYNCEOC command to be carried out before
\* it clears the flag.
ISR_l151_WaitSync ==
  /\ At("l151")
  /\ ~CTRLE
  /\ INTFLAGS' = FALSE
  /\ Goto("l152")
  /\ UNCHANGED <<pc, gen, regs, CTRLE, INTCTRL, ENABLE, ENRDY, active,
                 SREG_I, PIN_FRQ, hist>>

\* TCD0.INTFLAGS = TCD_OVF_bm;
ISR_l151 ==
  /\ At("l151")
  /\ INTFLAGS' = FALSE
  /\ Goto("l152")
  /\ UNCHANGED <<pc, gen, regs, CTRLE, INTCTRL, ENABLE, ENRDY, active,
                 SREG_I, PIN_FRQ, hist>>

\* if(++SIN_ptr >= sizeof(SIN)) SIN_ptr = 0;
ISR_l152 ==
  /\ At("l152")
  /\ SIN_ptr' = IncWrap(SIN_ptr)
  /\ Goto("l153")
  /\ UNCHANGED <<pc, SIN_val, cnt60, regs, tcd, SREG_I, PIN_FRQ, hist>>

\* Mutant: the counter decremented whatever the pin reads (the operands of
\* && exchanged).
Cnt60AfterTest_AlwaysDecrement(level, c) == U8(c - 1)

\* Mutant: the counter restarted whenever the pin reads high, so that it does
\* not keep its value across low-frequency periods.
Cnt60AfterTest_RestartOnLow(level, c) ==
  IF level = 0 THEN U8(c - 1) ELSE CNT60_RELOAD

\* The counter after if(!pinRead(PIN_FRQ) && !--cnt60): decremented only
\* when the pin reads low.
Cnt60AfterTest(level, c) == IF level = 0 THEN U8(c - 1) ELSE c

\* Mutant: the counter tested before the decrement (cnt60-- for --cnt60).
SkipTaken_PostDecrement(level, c) == level = 0 /\ c = 0

\* Whether the body of that if statement is entered.
SkipTaken(level, c) == level = 0 /\ Cnt60AfterTest(level, c) = 0

\* One whole handler invocation as a function of the generator state and the
\* pin level it reads: the set of generator states it can end in.
Handler(st, level) ==
  LET p1 == IncWrap(st.ptr)
      p2 == IF SkipTaken(level, st.cnt) THEN IncWrap(p1) ELSE p1
      c2 == IF SkipTaken(level, st.cnt) THEN CNT60_RELOAD
                                        ELSE Cnt60AfterTest(level, st.cnt)
  IN  {[ptr |-> p2, val |-> v, cnt |-> c2] : v \in SinRead(p2)}

\* if(!pinRead(PIN_FRQ) && !--cnt60) {
ISR_l153 ==
  /\ At("l153")
  /\ cnt60' = Cnt60AfterTest(PIN_FRQ, cnt60)
  /\ Goto(IF SkipTaken(PIN_FRQ, cnt60) THEN "l154" ELSE "l157")
  /\ obs' = ObsRead(obs, PIN_FRQ)
  /\ shadow' \in Handler(shadow, PIN_FRQ)
  /\ UNCHANGED <<pc, SIN_ptr, SIN_val, regs, tcd, SREG_I, PIN_FRQ>>

\* Mutant: the skip advance without its wrap test.
ISR_l154_NoWrap ==
  /\ At("l154")
  /\ SIN_ptr' = U16(SIN_ptr + 1)
  /\ Goto("l155")
  /\ obs' = ObsSkip(obs)
  /\ UNCHANGED <<pc, SIN_val, cnt60, regs, tcd, SREG_I, PIN_FRQ, shadow>>

\*   if(++SIN_ptr >= sizeof(SIN)) SIN_ptr = 0;
ISR_l154 ==
  /\ At("l154")
  /\ SIN_ptr' = IncWrap(SIN_ptr)
  /\ Goto("l155")
  /\ obs' = ObsSkip(obs)
  /\ UNCHANGED <<pc, SIN_val, cnt60, regs, tcd, SREG_I, PIN_FRQ, shadow>>

\* Mutant: the reset of the counter left out.
ISR_l155_NoReset ==
  /\ At("l155")
  /\ Goto("l157")
  /\ UNCHANGED <<pc, gen, regs, tcd, SREG_I, PIN_FRQ, hist>>

\*   cnt60 = 5; }
ISR_l155 ==
  /\ At("l155")
  /\ cnt60' = CNT60_RELOAD
  /\ Goto("l157")
  /\ UNCHANGED <<pc, SIN_ptr, SIN_val, regs, tcd, SREG_I, PIN_FRQ, hist>>

\* Mutant: the sample re-read from the index before the advance.
ISR_l157_StaleIndex ==
  /\ At("l157")
  /\ SIN_val' \in SinRead((SIN_ptr + SIZEOF_SIN - 1) % SIZEOF_SIN)
  /\ Goto("l158")
  /\ UNCHANGED <<pc, SIN_ptr, cnt60, regs, tcd, SREG_I, PIN_FRQ, hist>>

\* SIN_val = SIN[SIN_ptr];
ISR_l157 ==
  /\ At("l157")
  /\ SIN_val' \in SinRead(SIN_ptr)
  /\ Goto("l158")
  /\ UNCHANGED <<pc, SIN_ptr, cnt60, regs, tcd, SREG_I, PIN_FRQ, hist>>

\* Return from the handler.
ISR_l158 ==
  /\ At("l158")
  /\ isr' = Tail(isr)
  /\ UNCHANGED <<pc, gen, regs, tcd, SREG_I, PIN_FRQ, hist>>

\* The innermost handler invocation executes its next statement.
ISR_Step ==
  \/ ISR_l148 \/ ISR_l149 \/ ISR_l150 \/ ISR_l151 \/ ISR_l152
  \/ ISR_l153 \/ ISR_l154 \/ ISR_l155 \/ ISR_l157 \/ ISR_l158

\* ----------------------------------------------------------- specification
Next == Main \/ TCD_Ready \/ TCD_CycleEnd \/ SwitchFRQ \/ ISR_Enter \/ ISR_Step

Spec == Init /\ [][Next]_vars

\* The processor keeps executing: a handler invocation in progress
\* eventually executes its next statement.
SpecFair == Spec /\ WF_vars(ISR_Step)

\* ------------------------------------------------------------------ claims
\* No handler invocation is in progress.
Idle == isr = <<>>

\* The window is open and every invocation so far read low-frequency mode.
AllLow == obs.on /\ obs.k = 0
\* The window is open and every invocation so far read skip mode.
AllSkip == obs.on /\ obs.k = obs.n

\* Cycle length of the TCD cycles main configures.
MainCycleLength ==
  CycleLength([CMPASET |-> DEAD_TIME, CMPACLR |-> MAIN_CMPACLR,
               CMPBSET |-> DEAD_TIME, CMPBCLR |-> MAIN_CMPBCLR])

\* C1 (as claimed): when a handler invocation has executed its statements,
\* the low byte of CMPBCLR is 255 minus the low byte of CMPACLR.
C1_SecondaryIsComplement ==
  At("l158") => CMPBCLR % 256 = 255 - (CMPACLR % 256)

\* C2 (as claimed): the sample at the current index and the sample half a
\* period later sum to 255, at every index the generator reaches.
C2_HalfPeriodSum255 ==
  SIN_ptr < SIZEOF_SIN =>
    SIN(SIN_ptr) + SIN((SIN_ptr + SIZEOF_SIN \div 2) % SIZEOF_SIN) = 255

\* C2 (amended): the sample at the current index and the sample half a period
\* later sum to 255 at every index except the two zero crossings 0 and 193,
\* where both samples are 128 and the sum is 256.
C2_HalfPeriodSumExceptZeroCrossings ==
  SIN_ptr < SIZEOF_SIN =>
    SIN(SIN_ptr) + SIN((SIN_ptr + SIZEOF_SIN \div 2) % SIZEOF_SIN)
      = IF SIN_ptr \in {0, SIZEOF_SIN \div 2} THEN 256 ELSE 255

C2_Witness ==
  /\ Idle /\ SIN_ptr = SIZEOF_SIN \div 2
  /\ SIN(SIN_ptr) = 128 /\ SIN((SIN_ptr + SIZEOF_SIN \div 2) % SIZEOF_SIN) = 128

\* C3 (as claimed): every cycle of the running timer has the length of the
\* cycles main configured, and so do the compare values left in the
\* registers by every handler invocation.
C3_CycleLengthConstant ==
  /\ ENABLE => CycleLength(active) = MainCycleLength
  /\ ENABLE /\ Idle => CycleLength(Written) = MainCycleLength

\* C4: with low-frequency mode read by every invocation, the index after n
\* whole invocations is n mod 386; after exactly 386 invocations it is 0.
C4_LowModePeriod ==
  AllLow /\ Idle =>
    /\ SIN_ptr = obs.n % SIZEOF_SIN
    /\ obs.n = SIZEOF_SIN => SIN_ptr = 0

C4_Witness == AllLow /\ Idle /\ obs.n = SIZEOF_SIN /\ SIN_ptr = 0

\* C5: with skip mode read by every invocation, the extra advances made by
\* the first n invocations number floor(n / 5) (one on each of invocations
\* 5, 10, 15, ...), the index is (n + floor(n / 5)) mod 386, and after 386
\* invocations the index is 77.
C5_SkipModeAdvance ==
  AllSkip /\ Idle =>
    /\ obs.extra = obs.n \div 5
    /\ SIN_ptr = (obs.n + obs.n \div 5) % SIZEOF_SIN
    /\ obs.n = SIZEOF_SIN => SIN_ptr = 77

C5_Witness ==
  AllSkip /\ Idle /\ obs.n = SIZEOF_SIN /\ obs.extra = 77 /\ SIN_ptr = 77

\* C6: 386 * 6 = 2316 invocations that all read skip mode perform exactly
\* 463 extra index advances.
C6_EndToEndSkips ==
  AllSkip /\ Idle /\ obs.n = 6 * SIZEOF_SIN => obs.extra = 463

C6_Witness == AllSkip /\ Idle /\ obs.n = 2316 /\ obs.extra = 463

\* C7: in every reachable state, between any two statements of the handler
\* as well as between invocations, 0 <= SIN_ptr < 386.
C7_IndexInBounds == SIN_ptr \in 0 .. (SIZEOF_SIN - 1)

\* The base advance started from 384 and the skip advance from 385.
C7_Witness == At("l155") /\ SIN_ptr = 0 /\ shadow.ptr = 0 /\ SIN_val = SIN(384)

\* C8: with low-frequency mode read by every earlier invocation, the value
\* invocation n writes to CMPACLRL is SIN[(n - 1) mod 386], and it is the
\* sample cached by the invocation before it (the initial 0x80 on the first).
C8_LowModeOutputsInTableOrder ==
  AllLow /\ At("l149") =>
    /\ CMPACLR = SIN((obs.n - 1) % SIZEOF_SIN)
    /\ CMPACLR = shadow.val

\* Invocation 387 writes SIN[0] again, after invocation 386 wrote SIN[385].
C8_Witness ==
  AllLow /\ At("l149") /\ obs.n = SIZEOF_SIN + 1 /\ CMPACLR = 128 /\ SIN_ptr = 0

\* C9: in the initial state and after every handler invocation the cached
\* sample is the table entry at the index.
C9_CachedSample == Idle => SIN_ptr < SIZEOF_SIN /\ SIN_val = SIN(SIN_ptr)

\* After the fifth invocation in skip mode, which advanced the index twice.
C9_Witness ==
  AllSkip /\ Idle /\ obs.n = 5 /\ obs.extra = 1 /\ SIN_ptr = 6 /\ SIN_val = SIN(6)

\* C10: at most one handler invocation is in progress at any time, and
\* whenever none is, the generator state is the one obtained by running the
\* invocations so far one after another as atomic steps.
C10_HandlerAtomic == Len(isr) <= 1 /\ (Idle => GenState = shadow)

\* The next hardware trigger arrived while an invocation was in progress.
C10_Witness ==
  /\ At("l153") /\ INTFLAGS /\ INTCTRL /\ SREG_I /\ pc = "l140"
  /\ GenState # shadow

\* A step of the handler: the innermost invocation executes a statement.
HandlerStep == isr # <<>> /\ isr' # isr

\* C11: once the timer runs, CMPASET and CMPBSET hold the dead time main
\* wrote, and a statement of the handler changes no timer register other
\* than the low bytes of CMPACLR and CMPBCLR, CTRLE and INTFLAGS.
C11_DeadTimeUntouched ==
  /\ [](ENABLE => CMPASET = DEAD_TIME /\ CMPBSET = DEAD_TIME)
  /\ [][HandlerStep =>
          /\ UNCHANGED <<CMPASET, CMPBSET, INTCTRL, ENABLE, ENRDY, active>>
          /\ CMPACLR' \div 256 = CMPACLR \div 256
          /\ CMPBCLR' \div 256 = CMPBCLR \div 256]_vars

\* An invocation has written both on-time registers; the dead times stand.
C11_Witness ==
  /\ At("l158") /\ CMPACLR = 130 /\ CMPBCLR = 126
  /\ CMPASET = DEAD_TIME /\ CMPBSET = DEAD_TIME

\* C12: a handler invocation in progress always has its next statement
\* enabled (it waits on nothing) and always runs to its return.
C12_HandlerCompletes ==
  /\ [](isr # <<>> => ENABLED ISR_Step)
  /\ (isr # <<>>) ~> (isr = <<>>)

\* An invocation that took the skip branch is about to return.
C12_Witness == At("l158") /\ AllSkip /\ obs.n = 5 /\ obs.extra = 1

\* One whole traversal of the table in low-frequency mode has just ended:
\* obs.n timer cycles after start-up the index is back at 0 for the first time.
LowPeriodEnds == AllLow /\ Idle /\ SIN_ptr = 0 /\ obs.n \in 1 .. SIZEOF_SIN

\* C13 (as claimed): the output period of 386 cycles of 259 timer clocks
\* gives exactly 50 Hz: 50 * 259 * 386 = 5,000,000.
C13_Exactly50Hz ==
  /\ LowPeriodEnds => F_LOW * DOC_CYCLE_LENGTH * obs.n = TCD_CLOCK
  /\ obs.on /\ obs.n = SIZEOF_SIN => F_LOW * DOC_CYCLE_LENGTH * SIZEOF_SIN = TCD_CLOCK

\* C13 (amended): 386 is the integer nearest to 5,000,000 / (259 * 50), not an
\* exact divisor: 50 * 259 * 386 = 4,998,700, so the frequency
\* 5,000,000 / (259 * 386) has integer part 50 and remainder 1300 (50.013 Hz).
C13_NearestTo50Hz ==
  /\ TCD_CLOCK - F_LOW * DOC_CYCLE_LENGTH * SIZEOF_SIN >= 0
  /\ 2 * (TCD_CLOCK - F_LOW * DOC_CYCLE_LENGTH * SIZEOF_SIN) <= F_LOW * DOC_CYCLE_LENGTH
  /\ LowPeriodEnds =>
       /\ obs.n = SIZEOF_SIN
       /\ F_LOW * DOC_CYCLE_LENGTH * obs.n = 4998700
       /\ TCD_CLOCK \div (DOC_CYCLE_LENGTH * obs.n) = F_LOW
       /\ TCD_CLOCK % (DOC_CYCLE_LENGTH * obs.n) = 1300

C13_Witness == LowPeriodEnds /\ obs.n = 386

\* C14 (as claimed): the negation the handler is about to store in CMPBCLRL
\* is 255 minus its operand, for every sample the handler negates.
C14_NegationIsComplement ==
  At("l149") => Neg8(SIN_val) = 255 - SIN_val

\* The overflow flag is cleared in this step.
Acknowledge == INTFLAGS /\ ~INTFLAGS'

\* The order of the handler's statements: each pair is a line and a line
\* that can be executed next.
StatementOrder ==
  { <<"l148", "l149">>, <<"l149", "l150">>, <<"l150", "l151">>,
    <<"l151", "l152">>, <<"l152", "l153">>, <<"l153", "l154">>,
    <<"l153", "l157">>, <<"l154", "l155">>, <<"l155", "l157">>,
    <<"l157", "l158">> }

\* C15 (as claimed): the acknowledge is the last statement of the handler:
\* once the flag is cleared, only the return is left.
C15_AcknowledgeLast ==
  [][Acknowledge => isr' # <<>> /\ Head(isr') = "l158"]_vars

\* C15 (amended): the statements run in the order write primary, write
\* secondary, request synchronization, acknowledge, advance, optional skip,
\* re-read: the flag is cleared by the fourth statement (line 151) and by no
\* other step, before the index advance, the skip and the re-read.
C15_AcknowledgeFourth ==
  [][/\ Acknowledge => At("l151") /\ Head(isr') = "l152"
     /\ HandlerStep /\ At("l151") => ~INTFLAGS'
     /\ HandlerStep /\ isr' # <<>> => <<Head(isr), Head(isr')>> \in StatementOrder]_vars

\* Acknowledged, synchronization requested, the index not yet advanced.
C15_Witness ==
  At("l152") /\ ~INTFLAGS /\ CTRLE /\ SIN_ptr = shadow.ptr /\ obs.n = 2

\* The two on-times belong together: the pair main wrote, or a pair one
\* handler invocation wrote (a sample and its negation).
PairWrittenTogether(a, b) ==
  \/ a = MAIN_CMPACLR /\ b = MAIN_CMPBCLR
  \/ b = Neg8(a)

\* C16: a SYNCEOC command is pending only when both on-time registers hold
\* the values of one invocation and that invocation is past line 150, so the
\* on-times the running timer uses always belong together.
C16_SyncAfterBothWrites ==
  /\ CTRLE => /\ CMPBCLR = Neg8(CMPACLR)
              /\ ~At("l148") /\ ~At("l149") /\ ~At("l150")
  /\ ENABLE => PairWrittenTogether(active.CMPACLR, active.CMPBCLR)

\* The third invocation has written the new primary value only; the timer
\* still runs on the pair the second invocation wrote.
C16_Witness ==
  /\ At("l149") /\ CMPACLR = 132 /\ CMPBCLR = 126
  /\ active.CMPACLR = 130 /\ active.CMPBCLR = 126 /\ ~CTRLE

\* C17: the statement at line 153 is the one read of the pin in an
\* invocation; when it reads high (low-frequency mode), whatever the counter
\* holds and whatever was read before, it leaves the counter alone and goes
\* straight to the re-read, so that the invocation as a whole advances the
\* index by exactly 1 and returns with the counter it started with.
C17_LowReadAdvancesByOne ==
  [][/\ HandlerStep /\ At("l153") /\ PIN_FRQ = 1 =>
          /\ cnt60' = cnt60 /\ cnt60 = shadow.cnt
          /\ SIN_ptr' = SIN_ptr /\ SIN_ptr = (shadow.ptr + 1) % SIZEOF_SIN
          /\ Head(isr') = "l157"
          /\ shadow'.ptr = SIN_ptr /\ shadow'.cnt = cnt60
     /\ HandlerStep /\ (At("l157") \/ At("l158")) => UNCHANGED <<SIN_ptr, cnt60>>
    ]_vars

\* Four invocations read skip mode and one read low-frequency mode, with the
\* counter at 1 when the pin is high.
C17_Witness ==
  /\ At("l157") /\ obs.on /\ obs.n = 5 /\ obs.k = 4 /\ PIN_FRQ = 1
  /\ cnt60 = 1 /\ SIN_ptr = 5 /\ shadow.ptr = 5 /\ shadow.cnt = 1

\* C18: in the initial state and after every handler invocation the
\* correction counter is between 1 and 5; the 0 it reaches at line 153 is
\* replaced by 5 before the invocation returns.
C18_CounterRange == Idle => cnt60 \in 1 .. 5

\* The counter has just reached 0 inside an invocation.
C18_Witness == At("l154") /\ cnt60 = 0 /\ shadow.cnt = 5

\* C19: for any sequence of pin levels, after n whole invocations of which k
\* read skip mode, floor(k / 5) extra advances have been made, the index is
\* (n + floor(k / 5)) mod 386 and the counter is 5 - k mod 5: the counter
\* keeps its value across invocations that read low-frequency mode.
C19_MixedModeAdvances ==
  obs.on /\ Idle =>
    /\ obs.extra = obs.k \div 5
    /\ SIN_ptr = (obs.n + obs.k \div 5) % SIZEOF_SIN
    /\ cnt60 = 5 - (obs.k % 5)

\* Both modes read: seven low-frequency reads among twenty invocations.
C19_Witness ==
  /\ obs.on /\ Idle /\ obs.n = 20 /\ obs.k = 13 /\ obs.extra = 2
  /\ SIN_ptr = 22 /\ cnt60 = 2

\* The generator state is the one at start-up.
GenInitial ==
  SIN_ptr = SIN_PTR_INIT /\ SIN_val = SIN_VAL_INIT /\ cnt60 = CNT60_INIT

\* C20: with skip mode read by every invocation, the generator state after
\* n whole invocations is the initial (0, 0x80, 5) exactly when n is a
\* multiple of 965: first after 965 invocations, not after 386.
C20_SkipModePeriod965 ==
  AllSkip /\ Idle =>
    /\ GenInitial <=> (obs.n % 965 = 0)
    /\ obs.n = SIZEOF_SIN => ~GenInitial

C20_Witness == AllSkip /\ Idle /\ obs.n = 965 /\ obs.extra = 193 /\ GenInitial

====
